---- MODULE Spec2Model ----
(***************************************************************************)
(* Model of the Transport base class of postmaster-general-core.           *)
(*                                                                         *)
(* The repository carries three revisions of lib/transport.js.  They share *)
(* the lifecycle, the timing table and the reset timer and differ in input *)
(* validation and in logging; the variable impl says which revision the    *)
(* instance was built from:                                                *)
(*   "lodash"  src/unnamed/part_001 lines 1-283   (bluebird, lodash)       *)
(*   "private" src/unnamed/part_001 lines 285-510 (underscore fields)      *)
(*   "native"  src/lib/errors.js lines 187-415    (async, public fields)   *)
(***************************************************************************)
EXTENDS Integers, Sequences, FiniteSets, Bags, TLC

(***************************************************************************)
(* Bounds of the model.                                                    *)
(***************************************************************************)
\* largest reading of the clock and largest start timestamp
MaxClock == 2
\* largest number of timing observations kept in the table at one time
MaxObs == 2
\* largest number of setTimeout timers pending at one time
MaxTimers == 2
\* constructor inputs range over -MaxInterval..MaxInterval and the halves between
MaxInterval == 10
\* largest number of handler invocations waiting for their callback at one time
MaxInFlight == 2
\* largest number of correlation ids uuidv4() hands out
MaxUuids == 2

(***************************************************************************)
(* JavaScript values.  Every value is a record of one shape: t is the      *)
(* typeof tag, a number is n/d (d = 1 an integer, d = 2 an odd number of   *)
(* halves, d = 0 NaN), a string is s.                                      *)
(***************************************************************************)
Str(x) == [t |-> "string", n |-> 0, d |-> 1, s |-> x]
Num(k) == [t |-> "number", n |-> k, d |-> 1, s |-> ""]
Half(k) == [t |-> "number", n |-> k, d |-> 2, s |-> ""]
NaN == [t |-> "number", n |-> 0, d |-> 0, s |-> ""]
Undefined == [t |-> "undefined", n |-> 0, d |-> 1, s |-> ""]

\* typeof x === 'string' / _.isString(x)
IsString(x) == x.t = "string"
\* typeof x === 'undefined' / _.isUndefined(x)
IsUndefined(x) == x.t = "undefined"
\* _.isNumber(x): true of every number, NaN included
IsNumber(x) == x.t = "number"
\* Number.isInteger(x)
IsInteger(x) == x.t = "number" /\ x.d = 1
IsNaN(x) == x.t = "number" /\ x.d = 0

\* a finite number counted in halves, and back
Halves(x) == IF x.d = 2 THEN x.n ELSE 2 * x.n
FromHalves(h) == IF h % 2 = 0 THEN Num(h \div 2) ELSE Half(h)

\* x + y, x - y, x > y, x < y and x === 0 on numbers
JsAdd(x, y) == IF IsNaN(x) \/ IsNaN(y) THEN NaN ELSE FromHalves(Halves(x) + Halves(y))
JsSub(x, y) == IF IsNaN(x) \/ IsNaN(y) THEN NaN ELSE FromHalves(Halves(x) - Halves(y))
JsGt(x, y) == ~IsNaN(x) /\ ~IsNaN(y) /\ Halves(x) > Halves(y)
JsLt(x, y) == ~IsNaN(x) /\ ~IsNaN(y) /\ Halves(x) < Halves(y)
IsZero(x) == IsNumber(x) /\ ~IsNaN(x) /\ x.n = 0

\* the truthiness the || operator tests
Truthy(x) ==
  CASE x.t = "number" -> ~IsNaN(x) /\ x.n # 0
    [] x.t = "string" -> x.s # ""
    [] OTHER -> FALSE

(***************************************************************************)
(* State.                                                                  *)
(***************************************************************************)
VARIABLES
  impl,                  \* the revision of lib/transport.js
  instance,              \* "none" before new Transport(), then "ok" or "threw"
  optInterval,           \* options.timingsResetInterval handed to the constructor
  timingsResetInterval,  \* this.timingsResetInterval
  timings,               \* this.timings: topic -> timing record
  listening,             \* this.listening
  timingsTimeout,        \* this.timingsTimeout: 0 is null, else a timer
  timers,                \* the setTimeout timers that are pending
  observed,              \* topic -> the elapsed values that went into its record
  ret,                   \* the last call and its outcome
  logger,                \* this.logger
  handlers,              \* the topics whose wrapped handler addMessageListener returned
  inflight,              \* the handler invocations waiting for their callback, a bag
  callerOptions,         \* the options object last handed to publish or request
  uuids                  \* the number of ids uuidv4() has generated

vars == <<impl, instance, optInterval, timingsResetInterval, timings, listening,
          timingsTimeout, timers, observed, ret, logger, handlers, inflight,
          callerOptions, uuids>>

\* what the callers of the transport hold, and its logger
callers == <<logger, handlers, inflight, callerOptions, uuids>>

\* the fields of the instance and its timers
transport == <<timingsResetInterval, timings, listening, timingsTimeout, timers>>

Impls == {"lodash", "private", "native"}

\* defaults.timingsResetInterval of defaults.json
DefaultTimingsResetInterval == 60000

\* this.timings = {}
EmptyTable == [k \in {} |-> 0]

\* options.logger left out, and a logger exposing the methods ms
NoLogger == [present |-> FALSE, methods |-> {}]
Logger(ms) == [present |-> TRUE, methods |-> ms]

\* options of publish and request left out, and an options object
NoOptions == [present |-> FALSE, correlationId |-> Undefined, initiator |-> Undefined]
Options(c, i) == [present |-> TRUE, correlationId |-> c, initiator |-> i]

\* the report of a call: its argument, its outcome, the value it resolves to
\* and the logger methods it invoked; the operations that report with Ret
\* invoke none
Ret(op, arg, outcome, val) ==
  [op |-> op, arg |-> arg, outcome |-> outcome, val |-> val, logged |-> <<>>]

(***************************************************************************)
(* Inputs.                                                                 *)
(***************************************************************************)
Topics == {"a", "b"}
\* routing keys and topics: strings, and the non-strings of the tests
RoutingKeys == {Str(k) : k \in Topics} \cup {Num(44444), Undefined}
\* readings of the clock, new Date().getTime()
Clock == 0..MaxClock
\* start timestamps: integers, and the non-integers of the tests
Starts == {Num(i) : i \in 0..MaxClock} \cup {Half(1), NaN, Str("invalid")}
\* the starts and the readings the lifecycle specification records with
LifeStarts == {Num(0), Str("invalid")}
LifeClock == {0, 1}
\* options.timingsResetInterval
Intervals ==
  {Num(i) : i \in (0 - MaxInterval)..MaxInterval}
    \cup {Half(2 * i + 1) : i \in (0 - MaxInterval)..(MaxInterval - 1)}
    \cup {NaN, Str("bob"), Str(""), Undefined}

(***************************************************************************)
(* constructor(options)                                                    *)
(***************************************************************************)
\* the test each revision's constructor applies to options.timingsResetInterval
IntervalRejectedLodash(o) == ~IsUndefined(o) /\ ~IsNumber(o)
IntervalRejectedPrivate(o) == ~IsUndefined(o) /\ ~IsInteger(o)
IntervalRejectedNative(o) == ~IsUndefined(o) /\ ~IsInteger(o)

IntervalRejected(v, o) ==
  CASE v = "lodash" -> IntervalRejectedLodash(o)
    [] v = "private" -> IntervalRejectedPrivate(o)
    [] v = "native" -> IntervalRejectedNative(o)

\* options.timingsResetInterval || defaults.timingsResetInterval
IntervalOrDefault(o) == IF Truthy(o) THEN o ELSE Num(DefaultTimingsResetInterval)

constructor(v, o) ==
  IF IntervalRejected(v, o)
    THEN [outcome |-> "TypeError", timingsResetInterval |-> Undefined]
    ELSE [outcome |-> "ok", timingsResetInterval |-> IntervalOrDefault(o)]

\* the instance new Transport({timingsResetInterval: o, logger: lg}) leaves,
\* primed; logger is options.logger, and this.logger once the instance exists
ConstructWith(v, o, lg) ==
  LET c == constructor(v, o) IN
  /\ impl' = v
  /\ optInterval' = o
  /\ instance' = IF c.outcome = "ok" THEN "ok" ELSE "threw"
  /\ timingsResetInterval' = c.timingsResetInterval
  /\ timings' = EmptyTable
  /\ listening' = FALSE
  /\ timingsTimeout' = 0
  /\ timers' = {}
  /\ observed' = EmptyTable
  /\ ret' = Ret("constructor", o, c.outcome, Undefined)
  /\ logger' = lg
  /\ handlers' = {}
  /\ inflight' = EmptyBag
  /\ callerOptions' = NoOptions
  /\ uuids' = 0

\* the instance new Transport({timingsResetInterval: o}) leaves, primed
Construct(v, o) == ConstructWith(v, o, NoLogger)

(***************************************************************************)
(* The reset timer.                                                        *)
(***************************************************************************)
\* setTimeout returns a timer no one holds: only timingsTimeout and the
\* pending set can tell timers apart, so the least unused name stands for it
setTimeout(pending) ==
  CHOOSE i \in 1..(MaxTimers + 2) :
    /\ i \notin pending \cup {timingsTimeout}
    /\ \A j \in 1..(i - 1) : j \in pending \cup {timingsTimeout}

\* resetTimings() as a one-shot: the table is cleared and no timer is armed
resetTimings_NoRearm(lst, pending) ==
  /\ timings' = EmptyTable
  /\ observed' = EmptyTable
  /\ timers' = pending
  /\ UNCHANGED timingsTimeout

\* resetTimings() called with the flag lst and the timers pending
resetTimings(lst, pending) ==
  /\ timings' = EmptyTable
  /\ observed' = EmptyTable
  /\ IF lst
       THEN /\ timingsTimeout' = setTimeout(pending)
            /\ timers' = pending \cup {setTimeout(pending)}
       ELSE /\ timers' = pending
            /\ UNCHANGED timingsTimeout

\* clearTimeout(t) on the pending timers
clearTimeout(pending, t) == pending \ {t}

(***************************************************************************)
(* connect(), disconnect(), listen()                                       *)
(***************************************************************************)
\* connect() that starts listening
connect_StartsListening ==
  /\ instance = "ok"
  /\ listening' = TRUE
  /\ ret' = Ret("connect", Undefined, "ok", Undefined)
  /\ UNCHANGED <<callers, impl, instance, optInterval, timingsResetInterval, timings,
                 timingsTimeout, timers, observed>>

connect ==
  /\ instance = "ok"
  /\ ret' = Ret("connect", Undefined, "ok", Undefined)
  /\ UNCHANGED <<callers, impl, instance, optInterval, transport, observed>>

\* disconnect() that dereferences the timer without testing it for null
disconnect_RequiresTimer ==
  /\ instance = "ok"
  /\ IF timingsTimeout = 0
       THEN /\ ret' = Ret("disconnect", Undefined, "TypeError", Undefined)
            /\ UNCHANGED <<listening, timers>>
       ELSE /\ listening' = FALSE
            /\ timers' = clearTimeout(timers, timingsTimeout)
            /\ ret' = Ret("disconnect", Undefined, "ok", Undefined)
  /\ UNCHANGED <<callers, impl, instance, optInterval, timingsResetInterval, timings,
                 timingsTimeout, observed>>

disconnect ==
  /\ instance = "ok"
  /\ listening' = FALSE
  /\ timers' = IF timingsTimeout # 0 THEN clearTimeout(timers, timingsTimeout) ELSE timers
  /\ ret' = Ret("disconnect", Undefined, "ok", Undefined)
  /\ UNCHANGED <<callers, impl, instance, optInterval, timingsResetInterval, timings,
                 timingsTimeout, observed>>

\* listen() that arms the timer and leaves the first reset to it
listen_DeferredReset ==
  /\ instance = "ok"
  /\ Cardinality(timers) < MaxTimers
  /\ listening' = TRUE
  /\ timingsTimeout' = setTimeout(timers)
  /\ timers' = timers \cup {setTimeout(timers)}
  /\ ret' = Ret("listen", Undefined, "ok", Undefined)
  /\ UNCHANGED <<callers, impl, instance, optInterval, timingsResetInterval, timings, observed>>

listen ==
  /\ instance = "ok"
  /\ Cardinality(timers) < MaxTimers
  /\ listening' = TRUE
  /\ resetTimings(TRUE, timers)
  /\ ret' = Ret("listen", Undefined, "ok", Undefined)
  /\ UNCHANGED <<callers, impl, instance, optInterval, timingsResetInterval>>

\* resetTimings() that keeps the table while listening and only re-arms
CallResetTimings_KeepsWhileListening ==
  /\ instance = "ok"
  /\ listening => Cardinality(timers) < MaxTimers
  /\ IF listening
       THEN /\ timingsTimeout' = setTimeout(timers)
            /\ timers' = timers \cup {setTimeout(timers)}
            /\ UNCHANGED <<timings, observed>>
       ELSE resetTimings(FALSE, timers)
  /\ ret' = Ret("resetTimings", Undefined, "ok", Undefined)
  /\ UNCHANGED <<callers, impl, instance, optInterval, timingsResetInterval, listening>>

\* resetTimings() called by the owner of the transport
CallResetTimings ==
  /\ instance = "ok"
  /\ listening => Cardinality(timers) < MaxTimers
  /\ resetTimings(listening, timers)
  /\ ret' = Ret("resetTimings", Undefined, "ok", Undefined)
  /\ UNCHANGED <<callers, impl, instance, optInterval, timingsResetInterval, listening>>

\* a pending timer expires and runs () => this.resetTimings()
TimerFires(id) ==
  /\ instance = "ok"
  /\ id \in timers
  /\ resetTimings(listening, timers \ {id})
  /\ ret' = Ret("timer", Undefined, "ok", Undefined)
  /\ UNCHANGED <<callers, impl, instance, optInterval, timingsResetInterval, listening>>

TimerFire == \E id \in timers : TimerFires(id)

(***************************************************************************)
(* resolveTopic(routingKey)                                                *)
(***************************************************************************)
\* resolveTopic() that canonicalises the key instead of returning it
resolveTopic_Canonical(routingKey) ==
  IF ~IsString(routingKey)
    THEN [outcome |-> "TypeError", val |-> Undefined]
    ELSE [outcome |-> "ok", val |-> Str("a")]

resolveTopic(routingKey) ==
  IF ~IsString(routingKey)
    THEN [outcome |-> "TypeError", val |-> Undefined]
    ELSE [outcome |-> "ok", val |-> routingKey]

CallResolveTopic(routingKey) ==
  /\ instance = "ok"
  /\ ret' = Ret("resolveTopic", routingKey, resolveTopic(routingKey).outcome,
                resolveTopic(routingKey).val)
  /\ UNCHANGED <<callers, impl, instance, optInterval, transport, observed>>

(***************************************************************************)
(* recordTiming(topic, start)                                              *)
(***************************************************************************)
\* the record with the observation that creates it counted in advance
NewRecord_CountsFromOne ==
  [messageCount |-> Num(1), elapsedTime |-> Num(0),
   minElapsedTime |-> Num(0), maxElapsedTime |-> Num(0)]

\* the record a topic starts from
NewRecord ==
  [messageCount |-> Num(0), elapsedTime |-> Num(0),
   minElapsedTime |-> Num(0), maxElapsedTime |-> Num(0)]

\* the test each revision's recordTiming applies to start
StartRejectedLodash(start) == ~IsNumber(start)
StartRejectedPrivate(start) == ~IsInteger(start)
StartRejectedNative(start) == ~IsInteger(start)

StartRejected(v, start) ==
  CASE v = "lodash" -> StartRejectedLodash(start)
    [] v = "private" -> StartRejectedPrivate(start)
    [] v = "native" -> StartRejectedNative(start)

\* the minimum with 0 taken for a value like any other
NextMin_NoSentinel(min, elapsed) == IF JsGt(min, elapsed) THEN elapsed ELSE min

\* the minimum after an observation of elapsed
NextMin(min, elapsed) == IF JsGt(min, elapsed) \/ IsZero(min) THEN elapsed ELSE min

\* the maximum with the comparison turned round
NextMax_Reversed(max, elapsed) == IF JsGt(max, elapsed) THEN elapsed ELSE max

\* the maximum after an observation of elapsed
NextMax(max, elapsed) == IF JsLt(max, elapsed) THEN elapsed ELSE max

\* the record with elapsedTime assigned instead of added to
Recorded_Overwrite(rec, elapsed) ==
  [messageCount |-> JsAdd(rec.messageCount, Num(1)),
   elapsedTime |-> elapsed,
   minElapsedTime |-> NextMin(rec.minElapsedTime, elapsed),
   maxElapsedTime |-> NextMax(rec.maxElapsedTime, elapsed)]

\* the record of a topic after an observation of elapsed
Recorded(rec, elapsed) ==
  [messageCount |-> JsAdd(rec.messageCount, Num(1)),
   elapsedTime |-> JsAdd(rec.elapsedTime, elapsed),
   minElapsedTime |-> NextMin(rec.minElapsedTime, elapsed),
   maxElapsedTime |-> NextMax(rec.maxElapsedTime, elapsed)]

\* this.timings[topic] || {...}
RecordOf(table, k) == IF k \in DOMAIN table THEN table[k] ELSE NewRecord

\* table with table[k] = v
Put(table, k, v) == [x \in DOMAIN table \cup {k} |-> IF x = k THEN v ELSE table[x]]

\* delete that empties the whole table
Delete_All(table, k) == EmptyTable

\* delete table[k]
Delete(table, k) == [x \in DOMAIN table \ {k} |-> table[x]]

RECURSIVE CountObs(_, _)
CountObs(obs, keys) ==
  IF keys = {} THEN 0
  ELSE LET k == CHOOSE x \in keys : TRUE IN Len(obs[k]) + CountObs(obs, keys \ {k})

\* the observations that went into the records of the table
TotalObs == CountObs(observed, DOMAIN observed)

\* clock is what new Date().getTime() reads during the call
recordTiming(topic, start, clock) ==
  /\ instance = "ok"
  /\ IF ~IsString(topic) \/ StartRejected(impl, start)
       THEN /\ ret' = Ret("recordTiming", Undefined, "TypeError", Undefined)
            /\ UNCHANGED <<timings, observed>>
       ELSE LET elapsed == JsSub(Num(clock), start) IN
            /\ TotalObs < MaxObs
            /\ timings' = Put(timings, topic.s, Recorded(RecordOf(timings, topic.s), elapsed))
            /\ observed' = Put(observed, topic.s,
                               Append(IF topic.s \in DOMAIN observed
                                        THEN observed[topic.s] ELSE <<>>, elapsed))
            /\ ret' = Ret("recordTiming", Undefined, "ok", Undefined)
  /\ UNCHANGED <<callers, impl, instance, optInterval, timingsResetInterval, listening,
                 timingsTimeout, timers>>

RecordTimingIn(starts, clocks) ==
  \E k \in RoutingKeys, start \in starts, clock \in clocks : recordTiming(k, start, clock)

(***************************************************************************)
(* addMessageListener(routingKey, callback) and the handler it returns      *)
(***************************************************************************)
\* the callbacks a caller hands in: a function returning a promise, or nothing
Callbacks == {"function", "undefined"}

\* the arguments a broker hands to a wrapped handler
Args(m, c, i) == [msg |-> m, correlationId |-> c, initiator |-> i]
HandlerArgs == {Args(Str("m1"), Str("c1"), Str("u1")), Args(Str("m2"), Undefined, Undefined)}

\* what a callback settles with
Results == {Str("res")}

\* an error object: its log-level hint ("" when it has none) and its skipLog flag
Err(name, level, skip) == [name |-> name, logLevel |-> level, skipLog |-> skip]
CallbackErrors ==
  {Err("Error", "", FALSE), Err("ResponseError", "warn", FALSE),
   Err("ResponseError", "none", FALSE), Err("Error", "", TRUE)}
\* what a logger method throws when it fails
LoggerError == Err("LoggerError", "", FALSE)
NoError == Err("", "", FALSE)

\* the loggers an instance is configured with
LogLevels == {"error", "warn"}
Loggers == {NoLogger} \cup {Logger(ms) : ms \in SUBSET LogLevels \ {{}}}

\* how a callback ends: a resolved promise, a rejected promise, a synchronous throw
Resolves(res) == [kind |-> "resolve", res |-> res, err |-> NoError]
Rejects(err) == [kind |-> "reject", res |-> Undefined, err |-> err]
Throws(err) == [kind |-> "throw", res |-> Undefined, err |-> err]
Settlements == {Resolves(res) : res \in Results} \cup {Rejects(err) : err \in CallbackErrors}

addMessageListener_NoKeyCheck(routingKey, callback) ==
  /\ instance = "ok"
  /\ IF callback # "function"
       THEN /\ ret' = Ret("addMessageListener", routingKey, "TypeError", Undefined)
            /\ UNCHANGED handlers
       ELSE /\ handlers' = handlers \cup {routingKey.s}
            /\ ret' = Ret("addMessageListener", routingKey, "ok", Undefined)
  /\ UNCHANGED <<impl, instance, optInterval, transport, observed, logger, inflight,
                 callerOptions, uuids>>

addMessageListener(routingKey, callback) ==
  /\ instance = "ok"
  /\ IF ~IsString(routingKey) \/ callback # "function"
       THEN /\ ret' = Ret("addMessageListener", routingKey, "TypeError", Undefined)
            /\ UNCHANGED handlers
       ELSE LET topic == resolveTopic(routingKey).val IN
            /\ handlers' = handlers \cup {topic.s}
            /\ ret' = Ret("addMessageListener", routingKey, "ok", Undefined)
  /\ UNCHANGED <<impl, instance, optInterval, transport, observed, logger, inflight,
                 callerOptions, uuids>>

\* the calls the wrapped handler makes to the callback
CallbackCalls_MsgOnly(args) == <<Args(args.msg, Undefined, Undefined)>>

CallbackCalls(args) == <<Args(args.msg, args.correlationId, args.initiator)>>

\* the logger method the catch branch invokes for err, "" when it invokes none
LoggedLodash(lg, err) ==
  IF lg.present /\ "error" \in lg.methods /\ ~err.skipLog THEN "error" ELSE ""
LoggedPrivate(lg, err) ==
  LET logLevel == IF err.logLevel # "" THEN err.logLevel ELSE "error" IN
  IF lg.present /\ logLevel # "none" /\ logLevel \in lg.methods THEN logLevel ELSE ""
LoggedNative(lg, err) ==
  IF lg.present /\ "error" \in lg.methods THEN "error" ELSE ""

Logged(v, lg, err) ==
  CASE v = "lodash" -> LoggedLodash(lg, err)
    [] v = "private" -> LoggedPrivate(lg, err)
    [] v = "native" -> LoggedNative(lg, err)

\* the report of a started invocation: the arguments the handler was given and
\* the calls the callback received
Started(args, calls) ==
  [op |-> "invoke", arg |-> args, calls |-> calls, outcome |-> "pending", val |-> Undefined,
   logged |-> <<>>]

\* the report of a finished invocation: the clock readings at its start and
\* at its end, how the callback ended, the logger methods invoked, and how the
\* handler ended
Done(topic, start, at, end, logged, outcome, val) ==
  [op |-> "handler", topic |-> topic, arg |-> Undefined, start |-> start, at |-> at,
   end |-> end, logged |-> logged, outcome |-> outcome, val |-> val]

\* this.recordTiming(topic, start) called by the handler at clock reading clock
RecordsTiming(topic, start, clock) ==
  LET elapsed == JsSub(Num(clock), Num(start)) IN
  /\ TotalObs < MaxObs
  /\ timings' = Put(timings, topic, Recorded(RecordOf(timings, topic), elapsed))
  /\ observed' = Put(observed, topic,
                     Append(IF topic \in DOMAIN observed THEN observed[topic] ELSE <<>>,
                            elapsed))

\* the catch branch: record the timing, log the error, rethrow it; the logger
\* method, when one is invoked, returns or throws (loggerThrows)
Catches(topic, start, clock, end, loggerThrows) ==
  LET level == Logged(impl, logger, end.err)
      failed == level # "" /\ loggerThrows
  IN /\ RecordsTiming(topic, start, clock)
     /\ ret' = Done(topic, start, clock, end, IF level = "" THEN <<>> ELSE <<level>>,
                    "threw", IF failed THEN LoggerError ELSE end.err)

\* the handler is invoked and the callback returns a pending promise
Invoke(topic, args, clock) ==
  /\ instance = "ok"
  /\ topic \in handlers
  /\ BagCardinality(inflight) < MaxInFlight
  /\ inflight' = inflight (+) SetToBag({[topic |-> topic, start |-> clock]})
  /\ ret' = Started(args, CallbackCalls(args))
  /\ UNCHANGED <<impl, instance, optInterval, transport, observed, logger, handlers,
                 callerOptions, uuids>>

\* the handler is invoked and the callback throws before returning a promise:
\* the first revision has no try around the call, the later ones catch, with
\* both clock readings taken at the same instant
InvokeThrows(topic, err, loggerThrows) ==
  /\ instance = "ok"
  /\ topic \in handlers
  /\ IF impl = "lodash"
       THEN /\ ret' = Done(topic, 0, 0, Throws(err), <<>>, "threw", err)
            /\ UNCHANGED <<timings, observed>>
       ELSE Catches(topic, 0, 0, Throws(err), loggerThrows)
  /\ UNCHANGED <<impl, instance, optInterval, timingsResetInterval, listening,
                 timingsTimeout, timers, callers>>

\* a handler that keeps one start per topic: an invocation that settles is
\* timed from the earliest start in flight
Settle_SharedStart(call, clock, end, loggerThrows) ==
  /\ instance = "ok"
  /\ BagIn(call, inflight)
  /\ clock >= call.start
  /\ inflight' = inflight (-) SetToBag({call})
  /\ LET sameTopic == {c \in BagToSet(inflight) : c.topic = call.topic}
         earliest == CHOOSE t \in {c.start : c \in sameTopic} :
                       \A c \in sameTopic : t <= c.start
     IN RecordsTiming(call.topic, earliest, clock)
  /\ ret' = Done(call.topic, call.start, clock, end, <<>>,
                 IF end.kind = "resolve" THEN "ok" ELSE "threw",
                 IF end.kind = "resolve" THEN end.res ELSE end.err)
  /\ UNCHANGED <<impl, instance, optInterval, timingsResetInterval, listening,
                 timingsTimeout, timers, logger, handlers, callerOptions, uuids>>

\* the promise of an invocation in flight settles
Settle(call, clock, end, loggerThrows) ==
  /\ instance = "ok"
  /\ BagIn(call, inflight)
  /\ clock >= call.start
  /\ inflight' = inflight (-) SetToBag({call})
  /\ IF end.kind = "resolve"
       THEN /\ RecordsTiming(call.topic, call.start, clock)
            /\ ret' = Done(call.topic, call.start, clock, end, <<>>, "ok", end.res)
       ELSE Catches(call.topic, call.start, clock, end, loggerThrows)
  /\ UNCHANGED <<impl, instance, optInterval, timingsResetInterval, listening,
                 timingsTimeout, timers, logger, handlers, callerOptions, uuids>>

(***************************************************************************)
(* removeMessageListener(routingKey)                                       *)
(***************************************************************************)
removeMessageListener(routingKey) ==
  /\ instance = "ok"
  /\ IF ~IsString(routingKey)
       THEN /\ ret' = Ret("removeMessageListener", routingKey, "TypeError", Undefined)
            /\ UNCHANGED <<timings, observed>>
       ELSE LET topic == resolveTopic(routingKey).val IN
            /\ timings' = Delete(timings, topic.s)
            /\ observed' = Delete(observed, topic.s)
            /\ ret' = Ret("removeMessageListener", routingKey, "ok", Undefined)
  /\ UNCHANGED <<callers, impl, instance, optInterval, timingsResetInterval, listening,
                 timingsTimeout, timers>>

(***************************************************************************)
(* publish(routingKey, message, options), request(routingKey, message,     *)
(* options) and the envelope processor                                     *)
(***************************************************************************)
\* the n+1st id uuidv4() generates: a non-empty string unlike the ones before
uuidv4(n) == [t |-> "string", n |-> n + 1, d |-> 1, s |-> "uuid"]

\* options.correlationId and options.initiator as callers set them
CorrelationIds == {Undefined, Str("c1"), Num(44444)}
Initiators == {Undefined, Str("u1"), Num(44444)}
OptionsInputs == {NoOptions} \cup {Options(c, i) : c \in CorrelationIds, i \in Initiators}

\* `options = {}`, `options = options || {}`
OptionsOrEmpty(o) == IF o.present THEN o ELSE Options(Undefined, Undefined)

\* how a call ends: its outcome, the value it resolves to, the options object
\* afterwards and the number of ids generated so far
Sent(outcome, val, options, n) ==
  [outcome |-> outcome, val |-> val, options |-> options, uuids |-> n]

\* a correlation id generated before the options are validated
publishLodash_EagerId(routingKey, o, n) ==
  LET options == OptionsOrEmpty(o)
      id == IF IsUndefined(options.correlationId) THEN uuidv4(n) ELSE options.correlationId
      m == IF IsUndefined(options.correlationId) THEN n + 1 ELSE n
  IN IF ~IsString(routingKey) \/ ~IsString(id)
          \/ (~IsUndefined(options.initiator) /\ ~IsString(options.initiator))
       THEN Sent("TypeError", Undefined, [options EXCEPT !.correlationId = id], m)
       ELSE Sent("ok", id, [options EXCEPT !.correlationId = id], m)

\* publish of the first revision, with n ids generated before the call
publishLodash(routingKey, o, n) ==
  LET options == OptionsOrEmpty(o) IN
  IF ~IsString(routingKey)
    THEN Sent("TypeError", Undefined, options, n)
  ELSE IF ~IsUndefined(options.correlationId) /\ ~IsString(options.correlationId)
    THEN Sent("TypeError", Undefined, options, n)
  ELSE IF ~IsUndefined(options.initiator) /\ ~IsString(options.initiator)
    THEN Sent("TypeError", Undefined, options, n)
  ELSE IF IsUndefined(options.correlationId)
    THEN Sent("ok", uuidv4(n), [options EXCEPT !.correlationId = uuidv4(n)], n + 1)
  ELSE Sent("ok", options.correlationId, options, n)

\* a request that does not look at options.initiator
requestLodash_InitiatorUnchecked(routingKey, o, n) ==
  LET options == OptionsOrEmpty(o) IN
  IF ~IsString(routingKey)
    THEN Sent("TypeError", Undefined, options, n)
  ELSE IF ~IsUndefined(options.correlationId) /\ ~IsString(options.correlationId)
    THEN Sent("TypeError", Undefined, options, n)
  ELSE IF IsUndefined(options.correlationId)
    THEN Sent("ok", uuidv4(n), [options EXCEPT !.correlationId = uuidv4(n)], n + 1)
  ELSE Sent("ok", options.correlationId, options, n)

\* request of the first revision
requestLodash(routingKey, o, n) ==
  LET options == OptionsOrEmpty(o) IN
  IF ~IsString(routingKey)
    THEN Sent("TypeError", Undefined, options, n)
  ELSE IF ~IsUndefined(options.correlationId) /\ ~IsString(options.correlationId)
    THEN Sent("TypeError", Undefined, options, n)
  ELSE IF ~IsUndefined(options.initiator) /\ ~IsString(options.initiator)
    THEN Sent("TypeError", Undefined, options, n)
  ELSE IF IsUndefined(options.correlationId)
    THEN Sent("ok", uuidv4(n), [options EXCEPT !.correlationId = uuidv4(n)], n + 1)
  ELSE Sent("ok", options.correlationId, options, n)

\* _processMessage of the second revision
processMessagePrivate(routingKey, o, n) ==
  LET options == OptionsOrEmpty(o) IN
  IF ~IsString(routingKey)
    THEN Sent("TypeError", Undefined, options, n)
  ELSE IF ~IsUndefined(options.correlationId) /\ ~IsString(options.correlationId)
    THEN Sent("TypeError", Undefined, options, n)
  ELSE IF ~IsUndefined(options.initiator) /\ ~IsString(options.initiator)
    THEN Sent("TypeError", Undefined, options, n)
  ELSE IF IsUndefined(options.correlationId)
    THEN Sent("ok", uuidv4(n), [options EXCEPT !.correlationId = uuidv4(n)], n + 1)
  ELSE Sent("ok", options.correlationId, options, n)

\* an envelope processor that stamps every message with a new id
processMessage_AlwaysNewId(routingKey, o, n) ==
  LET options == OptionsOrEmpty(o) IN
  IF ~IsString(routingKey)
    THEN Sent("TypeError", Undefined, options, n)
  ELSE IF ~IsUndefined(options.correlationId) /\ ~IsString(options.correlationId)
    THEN Sent("TypeError", Undefined, options, n)
  ELSE IF ~IsUndefined(options.initiator) /\ ~IsString(options.initiator)
    THEN Sent("TypeError", Undefined, options, n)
  ELSE Sent("ok", uuidv4(n), [options EXCEPT !.correlationId = uuidv4(n)], n + 1)

\* processMessage of the third revision
processMessage(routingKey, o, n) ==
  LET options == OptionsOrEmpty(o) IN
  IF ~IsString(routingKey)
    THEN Sent("TypeError", Undefined, options, n)
  ELSE IF ~IsUndefined(options.correlationId) /\ ~IsString(options.correlationId)
    THEN Sent("TypeError", Undefined, options, n)
  ELSE IF ~IsUndefined(options.initiator) /\ ~IsString(options.initiator)
    THEN Sent("TypeError", Undefined, options, n)
  ELSE IF IsUndefined(options.correlationId)
    THEN Sent("ok", uuidv4(n), [options EXCEPT !.correlationId = uuidv4(n)], n + 1)
  ELSE Sent("ok", options.correlationId, options, n)

\* publish and request of revision v
publishOf(v, routingKey, o, n) ==
  CASE v = "lodash" -> publishLodash(routingKey, o, n)
    [] v = "private" -> processMessagePrivate(routingKey, o, n)
    [] v = "native" -> processMessage(routingKey, o, n)

requestOf(v, routingKey, o, n) ==
  CASE v = "lodash" -> requestLodash(routingKey, o, n)
    [] v = "private" -> processMessagePrivate(routingKey, o, n)
    [] v = "native" -> processMessage(routingKey, o, n)

\* the report of a publish or request: the routing key and the options object
\* as they were handed in, and the outcome
Delivered(op, routingKey, o, r) ==
  [op |-> op, arg |-> routingKey, options |-> o, outcome |-> r.outcome, val |-> r.val,
   logged |-> <<>>]

\* a publish that opens a record for the routing key of every message sent
publish_CreatesRecord(routingKey, o) ==
  /\ instance = "ok"
  /\ LET r == publishOf(impl, routingKey, o, uuids) IN
     /\ r.uuids <= MaxUuids
     /\ ret' = Delivered("publish", routingKey, o, r)
     /\ callerOptions' = IF o.present THEN r.options ELSE o
     /\ uuids' = r.uuids
     /\ timings' = IF r.outcome = "ok" /\ routingKey.s \notin DOMAIN timings
                     THEN Put(timings, routingKey.s, NewRecord) ELSE timings
  /\ UNCHANGED <<impl, instance, optInterval, timingsResetInterval, listening,
                 timingsTimeout, timers, observed, logger, handlers, inflight>>

\* the call writes into the caller's object; an object the call made itself
\* when the options were left out is out of the caller's reach
publish(routingKey, o) ==
  /\ instance = "ok"
  /\ LET r == publishOf(impl, routingKey, o, uuids) IN
     /\ r.uuids <= MaxUuids
     /\ ret' = Delivered("publish", routingKey, o, r)
     /\ callerOptions' = IF o.present THEN r.options ELSE o
     /\ uuids' = r.uuids
  /\ UNCHANGED <<impl, instance, optInterval, transport, observed, logger, handlers,
                 inflight>>

\* a request that reports a rejected call to the logger
request_LogsRejection(routingKey, o) ==
  /\ instance = "ok"
  /\ LET r == requestOf(impl, routingKey, o, uuids) IN
     /\ r.uuids <= MaxUuids
     /\ ret' = [Delivered("request", routingKey, o, r) EXCEPT
                 !.logged = IF r.outcome = "TypeError" /\ "error" \in logger.methods
                              THEN <<"error">> ELSE <<>>]
     /\ callerOptions' = IF o.present THEN r.options ELSE o
     /\ uuids' = r.uuids
  /\ UNCHANGED <<impl, instance, optInterval, transport, observed, logger, handlers,
                 inflight>>

request(routingKey, o) ==
  /\ instance = "ok"
  /\ LET r == requestOf(impl, routingKey, o, uuids) IN
     /\ r.uuids <= MaxUuids
     /\ ret' = Delivered("request", routingKey, o, r)
     /\ callerOptions' = IF o.present THEN r.options ELSE o
     /\ uuids' = r.uuids
  /\ UNCHANGED <<impl, instance, optInterval, transport, observed, logger, handlers,
                 inflight>>

(***************************************************************************)
(* Specifications.                                                         *)
(***************************************************************************)
\* new Transport({logger: lg}) of revision v
Constructed(v, lg) ==
    LET c == constructor(v, Undefined) IN
    /\ impl = v
    /\ optInterval = Undefined
    /\ instance = "ok"
    /\ timingsResetInterval = c.timingsResetInterval
    /\ timings = EmptyTable
    /\ listening = FALSE
    /\ timingsTimeout = 0
    /\ timers = {}
    /\ observed = EmptyTable
    /\ ret = Ret("constructor", Undefined, c.outcome, Undefined)
    /\ logger = lg
    /\ handlers = {}
    /\ inflight = EmptyBag
    /\ callerOptions = NoOptions
    /\ uuids = 0

\* new Transport() of any revision
Init == \E v \in Impls : Constructed(v, NoLogger)

Next ==
  \/ connect
  \/ disconnect
  \/ listen
  \/ CallResetTimings
  \/ TimerFire
  \/ \E k \in RoutingKeys : CallResolveTopic(k)
  \/ RecordTimingIn(LifeStarts, LifeClock)
  \/ \E k \in RoutingKeys : removeMessageListener(k)

Spec == Init /\ [][Next]_vars

\* the timing table alone: every start and every reading of the clock, the
\* transport never listening
NextTiming ==
  \/ RecordTimingIn(Starts, Clock)
  \/ CallResetTimings
  \/ \E k \in RoutingKeys : removeMessageListener(k)

SpecTiming == Init /\ [][NextTiming]_vars

\* the event loop runs every timer that is due
SpecLive == Spec /\ WF_vars(TimerFire)

\* the clock readings at which handlers are invoked: the callbacks settle at
\* the readings of LifeClock, none or one millisecond later
HandlerStarts == {0}

\* new Transport({logger}) of any revision with any logger
InitHandler == \E v \in Impls, lg \in Loggers : Constructed(v, lg)

\* listeners are added and removed, their handlers are invoked by the broker
\* and the callbacks settle
NextHandler ==
  \/ \E k \in RoutingKeys, cb \in Callbacks : addMessageListener(k, cb)
  \/ \E k \in handlers, args \in HandlerArgs, clock \in HandlerStarts : Invoke(k, args, clock)
  \/ \E k \in handlers, err \in CallbackErrors, loggerThrows \in BOOLEAN :
        InvokeThrows(k, err, loggerThrows)
  \/ \E call \in BagToSet(inflight), clock \in LifeClock, end \in Settlements,
        loggerThrows \in BOOLEAN : Settle(call, clock, end, loggerThrows)
  \/ \E k \in RoutingKeys : removeMessageListener(k)

SpecHandler == InitHandler /\ [][NextHandler]_vars

\* messages are published and requested; a caller hands in a new options
\* object or the one of the call before
NextEnvelope ==
  \/ \E k \in RoutingKeys, o \in OptionsInputs \cup {callerOptions} : publish(k, o)
  \/ \E k \in RoutingKeys, o \in OptionsInputs \cup {callerOptions} : request(k, o)

SpecEnvelope == Init /\ [][NextEnvelope]_vars

\* the options of the messages sent while the transport listens: left out,
\* complete, or with a malformed initiator
RoutingOptions ==
  {NoOptions, Options(Str("c1"), Str("u1")), Options(Str("c1"), Num(44444))}

\* the four operations that take a routing key, on a transport that listens
\* and records timings
NextRouting ==
  \/ \E k \in RoutingKeys, o \in RoutingOptions : publish(k, o)
  \/ \E k \in RoutingKeys, o \in RoutingOptions : request(k, o)
  \/ \E k \in RoutingKeys, cb \in Callbacks : addMessageListener(k, cb)
  \/ \E k \in RoutingKeys : removeMessageListener(k)
  \/ listen
  \/ RecordTimingIn({Num(0)}, {1})

SpecRouting == Init /\ [][NextRouting]_vars

\* handlers of a transport without a logger are invoked while earlier
\* invocations are in flight, their callbacks settle in any order, and
\* listeners are removed in between
ConcurrentSettlements == {Resolves(Str("res")), Rejects(Err("Error", "", FALSE))}

NextConcurrent ==
  \/ \E k \in RoutingKeys : addMessageListener(k, "function")
  \/ \E k \in handlers, args \in HandlerArgs, clock \in LifeClock : Invoke(k, args, clock)
  \/ \E call \in BagToSet(inflight), clock \in LifeClock, end \in ConcurrentSettlements :
        Settle(call, clock, end, FALSE)
  \/ \E k \in RoutingKeys : removeMessageListener(k)

SpecConcurrent == Init /\ [][NextConcurrent]_vars

\* every operation of the transport, each with few inputs: one topic, a
\* routing key that is not a string, messages without options, callbacks that
\* resolve, reject or throw
WholeKeys == {Str("a"), Num(44444)}

NextWhole ==
  \/ connect
  \/ disconnect
  \/ listen
  \/ CallResetTimings
  \/ TimerFire
  \/ \E k \in WholeKeys : recordTiming(k, Num(0), 1)
  \/ \E k \in WholeKeys : addMessageListener(k, "function")
  \/ \E k \in WholeKeys : removeMessageListener(k)
  \/ \E k \in WholeKeys : publish(k, NoOptions)
  \/ \E k \in WholeKeys : request(k, NoOptions)
  \/ \E k \in handlers : Invoke(k, Args(Str("m1"), Str("c1"), Str("u1")), 0)
  \/ \E k \in handlers : InvokeThrows(k, Err("Error", "", FALSE), FALSE)
  \/ \E call \in BagToSet(inflight), end \in ConcurrentSettlements : Settle(call, 1, end, FALSE)

SpecWhole == Init /\ [][NextWhole]_vars

\* before new Transport(options)
InitCtor ==
  /\ impl \in Impls
  /\ optInterval = Undefined
  /\ instance = "none"
  /\ timingsResetInterval = Undefined
  /\ timings = EmptyTable
  /\ listening = FALSE
  /\ timingsTimeout = 0
  /\ timers = {}
  /\ observed = EmptyTable
  /\ ret = Ret("none", Undefined, "ok", Undefined)
  /\ logger = NoLogger
  /\ handlers = {}
  /\ inflight = EmptyBag
  /\ callerOptions = NoOptions
  /\ uuids = 0

NextCtor == instance = "none" /\ \E o \in Intervals : Construct(impl, o)

SpecCtor == InitCtor /\ [][NextCtor]_vars

\* options.timingsResetInterval and the options of the messages of callers
\* who get their arguments wrong now and then
ValidationIntervals == {Undefined, Num(1), Half(1), Str("bob")}
ValidationOptions == RoutingOptions \cup {Options(Num(44444), Undefined)}

\* a transport is constructed with a logger, and the operations that validate
\* their arguments are called on it
NextValidation ==
  \/ instance = "none" /\ \E o \in ValidationIntervals, lg \in Loggers : ConstructWith(impl, o, lg)
  \/ \E k \in RoutingKeys, o \in ValidationOptions : publish(k, o)
  \/ \E k \in RoutingKeys, o \in ValidationOptions : request(k, o)
  \/ \E k \in RoutingKeys, cb \in Callbacks : addMessageListener(k, cb)
  \/ \E k \in RoutingKeys : removeMessageListener(k)

SpecValidation == InitCtor /\ [][NextValidation]_vars

(***************************************************************************)
(* Properties of the lifecycle and of the reset timer.                     *)
(***************************************************************************)

\* C1: after disconnect() the transport is not listening, and while it is
\* not listening no timer firing changes the timing table: a record written
\* after the disconnect() survives every timer tick until the next listen().
C1_NoResetAfterDisconnect ==
  /\ [](ret.op = "disconnect" => ~listening)
  /\ [][(~listening /\ ret'.op = "timer") => timings' = timings]_vars

\* C2: under fair timer firing every record present while the transport
\* listens is eventually cleared (or the transport stops listening), and a
\* firing arms the next timer exactly when the transport listens at the
\* moment it fires.
C2_PeriodicResetWhileListening ==
  /\ \A k \in Topics :
       (listening /\ k \in DOMAIN timings) ~> (~listening \/ k \notin DOMAIN timings)
  /\ [][ret'.op = "timer" =>
          Cardinality(timers') = IF listening THEN Cardinality(timers)
                                              ELSE Cardinality(timers) - 1]_vars

\* a timer fired while the transport listened and armed its successor
C2_Witness == ret.op = "timer" /\ listening /\ timingsTimeout \in timers

\* C3: listen() never fails, and when it resolves the transport listens and
\* the timing table is empty.
C3_ListenResetsImmediately ==
  ret.op = "listen" => ret.outcome = "ok" /\ listening /\ timings = EmptyTable

\* listen() resolved on a transport that was listening already
C3_Witness == ret.op = "listen" /\ Cardinality(timers) = 2 /\ timings = EmptyTable

\* C4: disconnect() never fails and leaves the transport not listening.
C4_DisconnectAlwaysSucceeds ==
  ret.op = "disconnect" => ret.outcome = "ok" /\ ~listening

\* disconnect() resolved on an instance that never listened and holds records
C4_Witness ==
  ret.op = "disconnect" /\ timingsTimeout = 0 /\ ~listening /\ DOMAIN timings # {}

\* C7: resolveTopic(k) returns k for a string k, fails with a TypeError for
\* anything else, and changes no field of the transport.
C7_ResolveTopicIdentity ==
  /\ [](ret.op = "resolveTopic" =>
          IF IsString(ret.arg)
            THEN ret.outcome = "ok" /\ ret.val = ret.arg
            ELSE ret.outcome = "TypeError")
  /\ [][ret'.op = "resolveTopic" => UNCHANGED transport]_vars

\* resolveTopic("b") returned on a listening transport that holds records
C7_Witness ==
  /\ ret.op = "resolveTopic" /\ ret.outcome = "ok" /\ ret.val = Str("b")
  /\ listening /\ DOMAIN timings # {}

(***************************************************************************)
(* Properties of the constructor.                                          *)
(***************************************************************************)
NonNegativeInteger(x) == IsInteger(x) /\ x.n >= 0

\* C5: for every non-negative integer timingsResetInterval, 0 included,
\* construction succeeds and the instance holds exactly that value; with the
\* option left out it holds the default of the package.
C5_IntervalKept ==
  instance # "none" =>
    /\ NonNegativeInteger(optInterval) =>
         instance = "ok" /\ timingsResetInterval = optInterval
    /\ IsUndefined(optInterval) =>
         instance = "ok" /\ timingsResetInterval = Num(DefaultTimingsResetInterval)

\* C6: construction fails for every supplied timingsResetInterval that is
\* not a non-negative integer: non-numbers, 1.5, NaN and negative integers.
C6_InvalidIntervalRejected ==
  (instance # "none" /\ ~IsUndefined(optInterval) /\ ~NonNegativeInteger(optInterval))
    => instance = "threw"

(***************************************************************************)
(* Properties of the timing table.                                         *)
(***************************************************************************)
\* a number that is not NaN and not below zero
NonNegative(x) == IsNumber(x) /\ ~IsNaN(x) /\ x.n >= 0

AllNonNegative(obs) == \A i \in 1..Len(obs) : NonNegative(obs[i])

\* the sum of finite observations, in halves
RECURSIVE SumHalves(_)
SumHalves(obs) == IF obs = <<>> THEN 0 ELSE Halves(Head(obs)) + SumHalves(Tail(obs))

\* the largest and the smallest of finite observations
Largest(obs) ==
  LET i == CHOOSE i \in 1..Len(obs) : \A j \in 1..Len(obs) : Halves(obs[j]) <= Halves(obs[i])
  IN obs[i]

\* the record whose four fields are count, e, e, e
OneObservation(e) ==
  [messageCount |-> Num(1), elapsedTime |-> e, minElapsedTime |-> e, maxElapsedTime |-> e]

\* C8 as stated: the first recordTiming for a topic without a record leaves
\* messageCount 1 and minElapsedTime, maxElapsedTime and elapsedTime all equal
\* to the observed elapsed value.
C8_FirstRecord ==
  \A k \in DOMAIN timings :
    Len(observed[k]) = 1 => timings[k] = OneObservation(observed[k][1])

\* C8 amended: the same, for an observed elapsed value that is a
\* non-negative number.
C8_FirstRecordNonNegative ==
  \A k \in DOMAIN timings :
    (Len(observed[k]) = 1 /\ NonNegative(observed[k][1]))
      => timings[k] = OneObservation(observed[k][1])

\* a first record with a positive elapsed value
C8_Witness ==
  /\ ret.op = "recordTiming" /\ ret.outcome = "ok"
  /\ \E k \in DOMAIN timings : observed[k] = <<Num(2)>>

\* C9: after any sequence of recordTiming calls on a topic with non-negative
\* elapsed values and no reset or removal in between, messageCount is the
\* number of calls, elapsedTime their sum and maxElapsedTime the largest;
\* elapsed 2 then 1 gives count 2, sum 3, max 2, min 1.
C9_CountSumMax ==
  \A k \in DOMAIN timings :
    /\ AllNonNegative(observed[k]) =>
         /\ timings[k].messageCount = Num(Len(observed[k]))
         /\ timings[k].elapsedTime = FromHalves(SumHalves(observed[k]))
         /\ timings[k].maxElapsedTime = Largest(observed[k])
    /\ observed[k] = <<Num(2), Num(1)>> =>
         timings[k] = [messageCount |-> Num(2), elapsedTime |-> Num(3),
                       minElapsedTime |-> Num(1), maxElapsedTime |-> Num(2)]

\* two observations, the larger first
C9_Witness == \E k \in DOMAIN timings : observed[k] = <<Num(2), Num(1)>>

\* the observations of a topic before a step
ObservedBefore(k) == IF k \in DOMAIN observed THEN observed[k] ELSE <<>>

\* a step in which recordTiming added an observation to topic k
Observes(k) ==
  /\ k \in DOMAIN observed'
  /\ Len(observed'[k]) = Len(ObservedBefore(k)) + 1

\* C10: a recordTiming that finds minElapsedTime at 0 (no record yet, or a
\* genuine 0) sets it to its own elapsed value even when that is larger, so
\* elapsed 0 then 2 leaves minElapsedTime 2; one that finds any other minimum
\* changes it only to a strictly smaller elapsed value.
C10_MinSentinel ==
  /\ [](\A k \in DOMAIN timings :
          observed[k] = <<Num(0), Num(2)>> => timings[k].minElapsedTime = Num(2))
  /\ [][\A k \in Topics :
          Observes(k) =>
            LET min == RecordOf(timings, k).minElapsedTime
                elapsed == observed'[k][Len(observed'[k])]
            IN timings'[k].minElapsedTime =
                 IF IsZero(min) THEN elapsed
                 ELSE IF JsLt(elapsed, min) THEN elapsed ELSE min]_vars

\* a genuine 0 was overwritten by a larger elapsed value
C10_Witness ==
  \E k \in DOMAIN timings :
    observed[k] = <<Num(0), Num(2)>> /\ timings[k].minElapsedTime = Num(2)


(***************************************************************************)
(* The handler returned by addMessageListener                               *)
(***************************************************************************)
\* C11: every invocation of a wrapped handler calls the callback exactly once,
\* with exactly the payload, correlation id and initiator the handler was given,
\* and when the callback succeeds the handler resolves to the callback's result
\* unchanged.
C11_HandlerPassesThrough ==
  /\ ret.op = "invoke" => ret.calls = <<ret.arg>>
  /\ (ret.op = "handler" /\ ret.end.kind = "resolve") =>
       ret.outcome = "ok" /\ ret.val = ret.end.res

C11_Witness ==
  /\ ret.op = "handler" /\ ret.end.kind = "resolve" /\ ret.val = Str("res")
  /\ ret.topic \in DOMAIN timings

\* an invocation of the handler of topic k completes in this step
Completes(k) == ret'.op = "handler" /\ ret'.topic = k

\* C12: every completed invocation of a wrapped handler records the timing of
\* its topic exactly once (messageCount of the topic grows by one, the other
\* records stay as they are), whether the callback resolves, rejects, or throws
\* synchronously.
C12_EveryInvocationTimed ==
  [][\A k \in Topics :
       Completes(k) =>
         /\ k \in DOMAIN timings'
         /\ timings'[k].messageCount = JsAdd(RecordOf(timings, k).messageCount, Num(1))
         /\ \A o \in DOMAIN timings' \ {k} : o \in DOMAIN timings /\ timings'[o] = timings[o]]_vars

\* C13: when the callback fails, the wrapped handler fails with the very same
\* error, whether or not a logger is configured and whatever the logger does.
C13_SameErrorRethrown ==
  (ret.op = "handler" /\ ret.end.kind # "resolve") =>
    ret.outcome = "threw" /\ ret.val = ret.end.err

\* the log level an error asks for, and whether it asks not to be logged
LevelHint(err) == IF err.logLevel = "" THEN "error" ELSE err.logLevel
Suppressed(err) == err.logLevel = "none" \/ err.skipLog

C15_RemoveDeletesOnlyItsTopic ==
  [][(ret'.op = "removeMessageListener" /\ IsString(ret'.arg)) =>
       LET topic == resolveTopic(ret'.arg).val.s IN
       /\ ret'.outcome = "ok"
       /\ DOMAIN timings' = DOMAIN timings \ {topic}
       /\ \A o \in DOMAIN timings' : timings'[o] = timings[o]]_vars

C15_Witness ==
  /\ ret.op = "removeMessageListener" /\ ret.arg = Str("a") /\ ret.outcome = "ok"
  /\ DOMAIN timings = {"b"}
  /\ timings["b"].messageCount = Num(2)

\* C20: resetTimings() removes the record of every topic whether listening is
\* true or false: right after it the timing table is empty.
C20_ResetEmptiesTable == ret.op = "resetTimings" => timings = EmptyTable

C20_Witness ==
  /\ ret.op = "resetTimings" /\ listening
  /\ timings = EmptyTable /\ Cardinality(timers) = 2

(***************************************************************************)
(* publish, request and the routing key                                     *)
(***************************************************************************)
Sends == {"publish", "request"}

\* options.correlationId of a call, undefined when the options were left out
Supplied(o) == OptionsOrEmpty(o).correlationId

\* C16 as stated: publish and request with a string routing key resolve to
\* exactly options.correlationId when a string correlationId is supplied, and to
\* a newly generated non-empty string when none is supplied.
C16_ResolvesToCorrelationId ==
  [][(ret'.op \in Sends /\ IsString(ret'.arg)) =>
       /\ IsString(Supplied(ret'.options)) =>
            ret'.outcome = "ok" /\ ret'.val = Supplied(ret'.options)
       /\ IsUndefined(Supplied(ret'.options)) =>
            /\ ret'.outcome = "ok"
            /\ IsString(ret'.val) /\ ret'.val.s # ""
            /\ uuids' = uuids + 1 /\ ret'.val = uuidv4(uuids)]_vars

\* options.initiator is left out or a string
InitiatorValid(o) ==
  IsUndefined(OptionsOrEmpty(o).initiator) \/ IsString(OptionsOrEmpty(o).initiator)

\* C16 amended: publish and request with a string routing key and an
\* options.initiator that is absent or a string resolve to exactly
\* options.correlationId when a string correlationId is supplied, and to a newly
\* generated non-empty string when none is supplied.
C16_ResolvesToCorrelationIdValidInitiator ==
  [][(ret'.op \in Sends /\ IsString(ret'.arg) /\ InitiatorValid(ret'.options)) =>
       /\ IsString(Supplied(ret'.options)) =>
            ret'.outcome = "ok" /\ ret'.val = Supplied(ret'.options)
       /\ IsUndefined(Supplied(ret'.options)) =>
            /\ ret'.outcome = "ok"
            /\ IsString(ret'.val) /\ ret'.val.s # ""
            /\ uuids' = uuids + 1 /\ ret'.val = uuidv4(uuids)]_vars

C16_Witness ==
  /\ ret.op = "request" /\ ret.arg = Str("a")
  /\ ret.options = Options(Undefined, Str("u1"))
  /\ ret.outcome = "ok" /\ ret.val = uuidv4(1)

\* C17: publish, request, addMessageListener and removeMessageListener called
\* with a routing key that is not a string fail with a TypeError and leave the
\* listening flag, the timing table and the pending timer as they were.
C17_NonStringRoutingKeyRejected ==
  [][(/\ ret'.op \in Sends \cup {"addMessageListener", "removeMessageListener"}
      /\ ~IsString(ret'.arg)) =>
       /\ ret'.outcome = "TypeError"
       /\ UNCHANGED <<listening, timings, timingsTimeout, timers>>]_vars

C17_Witness ==
  /\ ret.op = "addMessageListener" /\ ret.arg = Num(44444) /\ ret.outcome = "TypeError"
  /\ listening /\ timers # {} /\ DOMAIN timings = Topics

\* options.correlationId or options.initiator is present and not a string
Malformed(o) ==
  \/ ~IsUndefined(OptionsOrEmpty(o).correlationId) /\ ~IsString(OptionsOrEmpty(o).correlationId)
  \/ ~IsUndefined(OptionsOrEmpty(o).initiator) /\ ~IsString(OptionsOrEmpty(o).initiator)

\* C18: publish and request fail with a TypeError whenever options.correlationId
\* is present and not a string or options.initiator is present and not a string,
\* and then no correlation id is generated and none is returned.
C18_MalformedOptionsRejected ==
  [][(ret'.op \in Sends /\ Malformed(ret'.options)) =>
       /\ ret'.outcome = "TypeError"
       /\ IsUndefined(ret'.val)
       /\ uuids' = uuids]_vars

C18_Witness ==
  /\ ret.op = "publish" /\ ret.arg = Str("a")
  /\ ret.options = Options(Undefined, Num(44444))
  /\ ret.outcome = "TypeError" /\ uuids = 1

\* the step request (for publish) or publish (for request) takes from the
\* state before the call
Counterpart(op, routingKey, o, n) ==
  IF op = "publish" THEN requestOf(impl, routingKey, o, n)
                    ELSE publishOf(impl, routingKey, o, n)

\* C19: on the base class publish and request are equivalent for every routing
\* key and options with a supplied correlationId: a call of one ends with the
\* outcome and the value a call of the other would have ended with, leaves the
\* options object and the generated ids as the other would have, and leaves
\* the listening flag, the timing table and the timers as they were.
C19_PublishRequestEquivalent ==
  [][(ret'.op \in Sends /\ ~IsUndefined(Supplied(ret'.options))) =>
       LET r == Counterpart(ret'.op, ret'.arg, ret'.options, uuids) IN
       /\ ret'.outcome = r.outcome /\ ret'.val = r.val
       /\ callerOptions' = r.options /\ uuids' = r.uuids
       /\ UNCHANGED transport]_vars

C19_Witness ==
  /\ ret.op = "request" /\ ret.arg = Str("a") /\ ret.options = Options(Str("c1"), Str("u1"))
  /\ ret.outcome = "ok" /\ ret.val = Str("c1")
  /\ listening /\ DOMAIN timings # {}

(***************************************************************************)
(* The lifecycle operations and the pending timers                          *)
(***************************************************************************)
Lifecycle == {"connect", "disconnect", "listen"}

\* C21: connect(), disconnect() and listen() are idempotent: a call that comes
\* right after a call of the same operation leaves the listening flag, the
\* timing table and the number of pending reset timers as the first call left
\* them.
C21_LifecycleIdempotent ==
  [][(ret.op \in Lifecycle /\ ret'.op = ret.op) =>
       /\ listening' = listening
       /\ timings' = timings
       /\ Cardinality(timers') = Cardinality(timers)]_vars

\* C29: in every reachable state exactly one reset timer is pending when
\* listening is true and none is pending when listening is false.
C29_OneTimerIffListening == Cardinality(timers) = IF listening THEN 1 ELSE 0

(***************************************************************************)
(* The options object of publish and request                                *)
(***************************************************************************)
\* C22: publish and request have no side effect other than returning the
\* correlation id: the caller's options object is after the call as it was
\* handed in, and the listening flag, the timing table and the timers are
\* unchanged.
C22_SendHasNoSideEffect ==
  [][ret'.op \in Sends =>
       /\ callerOptions' = ret'.options
       /\ UNCHANGED transport]_vars

\* an id that came out of uuidv4(), and the ids it generated so far
Generated(x) == IsString(x) /\ x.s = "uuid"
IssuedBefore == {uuidv4(i) : i \in 0..(uuids - 1)}

\* the caller put a correlationId of its own into the options
CallerSet(o) == ~IsUndefined(Supplied(o)) /\ ~Generated(Supplied(o))

\* C23: a publish or request (with a string routing key and a valid initiator)
\* by a caller who did not set a correlationId resolves to a freshly generated
\* id that differs from every id returned before, whether the call is handed a
\* new options object or the one of an earlier call.
C23_FreshIdPerCall ==
  [][(/\ ret'.op \in Sends /\ IsString(ret'.arg)
      /\ InitiatorValid(ret'.options) /\ ~CallerSet(ret'.options)) =>
       /\ ret'.outcome = "ok"
       /\ Generated(ret'.val)
       /\ ret'.val \notin IssuedBefore]_vars

(***************************************************************************)
(* The arguments of recordTiming                                            *)
(***************************************************************************)
\* the elapsed value a step added to the observations of topic k
LastObserved(k) == observed'[k][Len(observed'[k])]

\* C27: recordTiming(topic, start) fails with a TypeError whenever topic is not
\* a string or start is not an integer (a non-integer number and NaN included),
\* and then leaves the timing table as it was.  A call either fails and leaves
\* the table alone, or it was given a string topic and an integer start: it
\* adds to the record of one of the topics an elapsed value that is an integer,
\* which the difference of an integer clock reading and start is exactly when
\* start is an integer.
C27_RecordTimingValidates ==
  [][ret'.op = "recordTiming" =>
       IF ret'.outcome = "TypeError"
         THEN UNCHANGED timings
         ELSE \E k \in Topics : Observes(k) /\ IsInteger(LastObserved(k))]_vars

(***************************************************************************)
(* Validation failures and the logger                                       *)
(***************************************************************************)
\* C25: a call of a public operation that fails on the validation of its
\* input (a routing key that is not a string, a callback that is not a
\* function, a correlationId or initiator that is not a string, an invalid
\* timingsResetInterval) invokes no method of the configured logger.
C25_ValidationFailuresNotLogged == ret.outcome = "TypeError" => ret.logged = <<>>

C25_Witness ==
  /\ ret.op = "request" /\ ret.outcome = "TypeError"
  /\ ret.arg = Str("a") /\ ret.options = Options(Str("c1"), Num(44444))
  /\ logger = Logger({"error", "warn"})

(***************************************************************************)
(* Invocations in flight at the same time                                   *)
(***************************************************************************)
\* an invocation that was in flight settles in this step
Settles(k) == Completes(k) /\ ret'.end.kind # "throw"

\* the invocation of topic k started at clock reading t, as it is in flight
InFlight(k, t) == [topic |-> k, start |-> t]

\* C26: invocations of a handler that are in flight at the same time are timed
\* independently.  Every invocation that settles, whatever else is in flight
\* and in whatever order the others settle, was in flight with the start
\* captured when it was invoked, leaves the other invocations in flight, adds
\* one to the messageCount of its topic and adds its own completion time minus
\* its own start to elapsedTime; so k of them add k and the sum of their own
\* elapsed times.
C26_InFlightTimedIndependently ==
  [][\A k \in Topics :
       Settles(k) =>
         /\ BagIn(InFlight(k, ret'.start), inflight)
         /\ inflight' = inflight (-) SetToBag({InFlight(k, ret'.start)})
         /\ k \in DOMAIN timings'
         /\ timings'[k].messageCount = JsAdd(RecordOf(timings, k).messageCount, Num(1))
         /\ timings'[k].elapsedTime =
              JsAdd(RecordOf(timings, k).elapsedTime, Num(ret'.at - ret'.start))]_vars

\* an invocation has settled while one of the same topic that started before
\* it is still in flight
C26_Witness ==
  /\ ret.op = "handler" /\ ret.topic = "a" /\ ret.start = 1 /\ ret.at = 1
  /\ BagIn(InFlight("a", 0), inflight)
  /\ timings["a"].messageCount = Num(2) /\ timings["a"].elapsedTime = Num(1)

\* C30: once removeMessageListener(k) has completed, the timing table has no
\* record for resolveTopic(k) until a handler of the topic is invoked after the
\* removal.  In particular an invocation that was in flight when the listener
\* was removed and settles right after the removal does not bring the record
\* back.
C30_RemovedRecordStaysAway ==
  [][(/\ ret.op = "removeMessageListener" /\ ret.outcome = "ok"
      /\ Settles(resolveTopic(ret.arg).val.s)) =>
       resolveTopic(ret.arg).val.s \notin DOMAIN timings']_vars

(***************************************************************************)
(* What the operations leave alone                                          *)
(***************************************************************************)
\* the operations that make no timing observation
NoObservation == {"addMessageListener", "publish", "request", "connect", "listen", "disconnect"}

\* C24: in every reachable state every record of the timing table has
\* messageCount >= 1, and addMessageListener, publish, request, connect, listen
\* and disconnect never create a record.
C24_RecordsOnlyFromObservations ==
  [][/\ \A k \in DOMAIN timings' :
          IsInteger(timings'[k].messageCount) /\ timings'[k].messageCount.n >= 1
     /\ ret'.op \in NoObservation => DOMAIN timings' \subseteq DOMAIN timings]_vars

C24_Witness ==
  /\ ret.op = "publish" /\ ret.outcome = "ok"
  /\ DOMAIN timings = {"a"} /\ timings["a"].messageCount = Num(2)
  /\ listening

\* C28: the listening flag becomes true only by listen() and false only by
\* disconnect(); no other operation, handler invocation or timer firing
\* changes it, and connect() changes no state at all.
C28_ListeningFollowsLifecycle ==
  [][/\ listening' # listening =>
          \/ ret'.op = "listen" /\ listening'
          \/ ret'.op = "disconnect" /\ ~listening'
     /\ ret'.op = "connect" =>
          UNCHANGED <<impl, instance, optInterval, transport, observed, callers>>]_vars

C28_Witness ==
  /\ ret.op = "connect" /\ listening /\ timers # {}
  /\ DOMAIN timings = {"a"} /\ BagCardinality(inflight) = 1 /\ uuids = 1

(***************************************************************************)
(* Bounds between the fields of a record                                   *)
(***************************************************************************)
\* the smallest of finite observations
Smallest(obs) ==
  LET i == CHOOSE i \in 1..Len(obs) : \A j \in 1..Len(obs) : Halves(obs[i]) <= Halves(obs[j])
  IN obs[i]

\* no observation was 0
NoneZero(obs) == \A i \in 1..Len(obs) : ~IsZero(obs[i])

\* minElapsedTime <= maxElapsedTime
MinWithinMax(rec) == Halves(rec.minElapsedTime) <= Halves(rec.maxElapsedTime)

\* minElapsedTime * messageCount <= elapsedTime
SumAboveMin(rec) == Halves(rec.minElapsedTime) * rec.messageCount.n <= Halves(rec.elapsedTime)

\* elapsedTime <= maxElapsedTime * messageCount
SumBelowMax(rec) == Halves(rec.elapsedTime) <= Halves(rec.maxElapsedTime) * rec.messageCount.n

\* C31 as stated: for non-negative elapsed values every record of the timing
\* table has minElapsedTime <= maxElapsedTime and minElapsedTime * messageCount
\* <= elapsedTime <= maxElapsedTime * messageCount, and minElapsedTime is the
\* smallest observed elapsed value whenever none of them was 0.
C31_RecordBounds ==
  \A k \in DOMAIN timings :
    AllNonNegative(observed[k]) =>
      /\ MinWithinMax(timings[k])
      /\ SumAboveMin(timings[k])
      /\ SumBelowMax(timings[k])
      /\ NoneZero(observed[k]) => timings[k].minElapsedTime = Smallest(observed[k])

\* C31 amended: for non-negative elapsed values every record has
\* minElapsedTime <= maxElapsedTime and elapsedTime <= maxElapsedTime *
\* messageCount; whenever none of the observed values was 0 it also has
\* minElapsedTime * messageCount <= elapsedTime and minElapsedTime is the
\* smallest observed value.
C31_RecordBoundsZeroAside ==
  \A k \in DOMAIN timings :
    AllNonNegative(observed[k]) =>
      /\ MinWithinMax(timings[k])
      /\ SumBelowMax(timings[k])
      /\ NoneZero(observed[k]) =>
           /\ SumAboveMin(timings[k])
           /\ timings[k].minElapsedTime = Smallest(observed[k])

\* two positive observations, the smaller first, and the record they leave
C31_Witness ==
  \E k \in DOMAIN timings :
    /\ observed[k] = <<Num(1), Num(2)>>
    /\ timings[k] = [messageCount |-> Num(2), elapsedTime |-> Num(3),
                     minElapsedTime |-> Num(1), maxElapsedTime |-> Num(2)]

====
